---- MODULE Spec2Model ----
(***************************************************************************)
(* Bill splitting (core.ts: splitBill and its helpers) and the command     *)
(* line runner around it (cli.ts: single document, batch and async batch). *)
(*                                                                         *)
(* Numbers.  A JavaScript number is modelled as an exact rational          *)
(* <<numerator, denominator>> in lowest terms with a positive denominator, *)
(* so price / persons, subTotal * tipPercentage / 100 and Math.round are   *)
(* computed exactly.  Where a statement turns on the bits of a number,     *)
(* the same functions are computed in IEEE 754 binary64 (the definitions   *)
(* whose names end in 64, specification Binary64Spec).                     *)
(*                                                                         *)
(* Strings that the code takes apart (the date) are sequences of           *)
(* one-character strings.                                                  *)
(***************************************************************************)
EXTENDS Integers, Sequences, FiniteSets, TLC

VARIABLES
    \* a call of splitBill (core.ts)
    input,      \* the BillInput handed to splitBill
    phase,      \* "idle" | "called" | "returned" | "threw"
    preItems,   \* calculateItems' result, before adjustAmount mutates it
    output,     \* the BillOutput returned (NoOutput until then)
    \* a run of main (cli.ts)
    args,       \* parseArgs' result: [batch, async, format]
    files,      \* the input file, or the input directory's entries: [name, doc]
    mainPc,     \* "start" | "loop" | "tasks" | "write" | "ended"
    idx,        \* processBatchFiles: how many entries the for loop has passed
    taskPc,     \* processBatchFilesAsync: each task "none" | "read" | "write" | "settled"
    outcome,    \* per entry "none" | "ok" | "readError" | "splitError" | "writeError"
    started,    \* per entry, how often processing of it began
    splits,     \* per entry, how often splitBill was called on its document
    written,    \* the output artifacts written: [path, from, serialization]
    successCount,
    errorCount,
    reported,   \* the result counts have been printed
    exitCode    \* the process's exit code once mainPc = "ended"

coreVars == <<input, phase, preItems, output>>
cliVars == <<args, files, mainPc, idx, taskPc, outcome, started, splits, written,
             successCount, errorCount, reported, exitCode>>
vars == <<coreVars, cliVars>>

----------------------------------------------------------------------------
(* Bounds of the model *)

MaxItems == 3
MaxFiles == 2

----------------------------------------------------------------------------
(* Exact arithmetic on JavaScript numbers *)

Abs(n) == IF n < 0 THEN -n ELSE n

RECURSIVE GCD(_, _)
GCD(a, b) == IF b = 0 THEN a ELSE GCD(b, a % b)

\* n/d in lowest terms, d > 0
Rat(n, d) == LET g == GCD(Abs(n), d) IN <<n \div g, d \div g>>

Num(k) == <<k, 1>>
Zero == Num(0)

Add(x, y) == Rat(x[1] * y[2] + y[1] * x[2], x[2] * y[2])
Neg(x) == <<-x[1], x[2]>>
Sub(x, y) == Add(x, Neg(y))
Mul(x, y) == Rat(x[1] * y[1], x[2] * y[2])
\* x / k for a positive integer k
DivInt(x, k) == Rat(x[1], x[2] * k)
Less(x, y) == x[1] * y[2] < y[1] * x[2]
Leq(x, y) == x[1] * y[2] <= y[1] * x[2]

\* Math.round: the nearest integer, a tie going to the larger one
\* (Math.round(2.5) = 3, Math.round(-2.5) = -2): floor(x + 1/2).
MathRound(x) == (2 * x[1] + x[2]) \div (2 * x[2])

\* Math.round(x * 10) / 10
Round10(x) == Rat(MathRound(Mul(x, Num(10))), 10)

RECURSIVE SumAmounts(_)
\* items.reduce((sum, item) => sum + item.amount, 0)
SumAmounts(items) ==
    IF items = <<>> THEN Zero
    ELSE Add(SumAmounts(SubSeq(items, 1, Len(items) - 1)), items[Len(items)].amount)

----------------------------------------------------------------------------
(* Strings *)

Digits == <<"0", "1", "2", "3", "4", "5", "6", "7", "8", "9">>

IsDigit(c) == \E i \in 1..Len(Digits) : Digits[i] = c
DigitVal(c) == (CHOOSE i \in 1..Len(Digits) : Digits[i] = c) - 1

RECURSIVE Split(_)
\* s.split("-"): the pieces between the separators, at least one piece
Split(s) ==
    IF \A i \in 1..Len(s) : s[i] # "-" THEN <<s>>
    ELSE LET i == CHOOSE k \in 1..Len(s) :
                      s[k] = "-" /\ \A j \in 1..(k - 1) : s[j] # "-"
         IN  <<SubSeq(s, 1, i - 1)>> \o Split(SubSeq(s, i + 1, Len(s)))

\* String(undefined): what parseInt sees for a missing array element
Undefined == <<"u", "n", "d", "e", "f", "i", "n", "e", "d">>

\* const [year, month, day] = parts: a missing element is undefined
Element(parts, i) == IF i <= Len(parts) THEN parts[i] ELSE Undefined

NaN == [nan |-> TRUE, val |-> 0]

RECURSIVE DigitsValue(_)
DigitsValue(s) ==
    IF s = <<>> THEN 0
    ELSE 10 * DigitsValue(SubSeq(s, 1, Len(s) - 1)) + DigitVal(s[Len(s)])

\* parseInt(s, 10) on a string without sign or white space: the value of the
\* longest prefix of digits, NaN when that prefix is empty
parseInt(s) ==
    LET n == CHOOSE k \in 0..Len(s) :
                 /\ \A j \in 1..k : IsDigit(s[j])
                 /\ (k < Len(s) => ~IsDigit(s[k + 1]))
    IN  IF n = 0 THEN NaN ELSE [nan |-> FALSE, val |-> DigitsValue(SubSeq(s, 1, n))]

RECURSIVE NatToString(_)
NatToString(n) ==
    IF n < 10 THEN <<Digits[n + 1]>>
    ELSE NatToString(n \div 10) \o <<Digits[(n % 10) + 1]>>

\* `${x}` for a number that is NaN or a non-negative integer
NumberToString(x) == IF x.nan THEN <<"N", "a", "N">> ELSE NatToString(x.val)

----------------------------------------------------------------------------
(* core.ts *)

\* what a call does: return a value, or throw
Return(v) == [threw |-> FALSE, value |-> v]
Throw == [threw |-> TRUE, value |-> <<>>]

\* A date value as JSON delivers it: a string, or a number (for which
\* date.split is not a function and the call throws a TypeError).
StringDate(chars) == [type |-> "string", chars |-> chars]
NumberDate == [type |-> "number", chars |-> <<>>]

\* the three CJK characters of the output format, each one character
YearSign == "U+5E74"
MonthSign == "U+6708"
DaySign == "U+65E5"

\* mutant: month and day are put into the output as they stand in the input
formatDateUnparsed(date) ==
    IF date.type # "string" THEN Throw
    ELSE LET parts == Split(date.chars)
         IN  Return(Element(parts, 1) \o <<YearSign>> \o Element(parts, 2) \o <<MonthSign>>
                         \o Element(parts, 3) \o <<DaySign>>)

formatDate(date) ==
    IF date.type # "string" THEN Throw
    ELSE LET parts == Split(date.chars)
             year == Element(parts, 1)
             monthNum == parseInt(Element(parts, 2))
             dayNum == parseInt(Element(parts, 3))
         IN  Return(year \o <<YearSign>> \o NumberToString(monthNum) \o <<MonthSign>>
                         \o NumberToString(dayNum) \o <<DaySign>>)

RECURSIVE calculateSubTotal(_)
calculateSubTotal(items) ==
    IF items = <<>> THEN Zero
    ELSE Add(calculateSubTotal(SubSeq(items, 1, Len(items) - 1)), items[Len(items)].price)

\* mutant: the tip cut to a multiple of 0.1 instead of rounded
calculateTipTruncated(subTotal, tipPercentage) ==
    LET tipAmount == DivInt(Mul(subTotal, tipPercentage), 100)
        tenths == Mul(tipAmount, Num(10))
    IN  Rat(tenths[1] \div tenths[2], 10)

calculateTip(subTotal, tipPercentage) ==
    LET tipAmount == DivInt(Mul(subTotal, tipPercentage), 100)
    IN  Round10(tipAmount)

Includes(seq, x) == \E i \in 1..Len(seq) : seq[i] = x

RECURSIVE scanPersonsNoDedupe(_)
\* mutant: every personal item adds its person, seen before or not
scanPersonsNoDedupe(items) ==
    IF items = <<>> THEN <<>>
    ELSE LET persons == scanPersonsNoDedupe(SubSeq(items, 1, Len(items) - 1))
             item == items[Len(items)]
         IN  IF ~item.isShared THEN Append(persons, item.person) ELSE persons

RECURSIVE scanPersons(_)
scanPersons(items) ==
    IF items = <<>> THEN <<>>
    ELSE LET persons == scanPersons(SubSeq(items, 1, Len(items) - 1))
             item == items[Len(items)]
         IN  IF ~item.isShared
             THEN IF ~Includes(persons, item.person)
                  THEN Append(persons, item.person)
                  ELSE persons
             ELSE persons

RECURSIVE personSubTotal(_, _, _)
\* the loop of calculatePersonAmount
personSubTotal(items, name, persons) ==
    IF items = <<>> THEN Zero
    ELSE LET sofar == personSubTotal(SubSeq(items, 1, Len(items) - 1), name, persons)
             item == items[Len(items)]
         IN  IF item.isShared
             THEN Add(sofar, DivInt(item.price, persons))
             ELSE IF item.person = name THEN Add(sofar, item.price) ELSE sofar

\* mutant: the participant's tip rounded on its own before it is added
calculatePersonAmountRoundedTip(items, tipPercentage, name, persons) ==
    LET sub == personSubTotal(items, name, persons)
        personTip == Round10(DivInt(Mul(sub, tipPercentage), 100))
    IN  Round10(Add(sub, personTip))

calculatePersonAmount(items, tipPercentage, name, persons) ==
    LET sub == personSubTotal(items, name, persons)
        personTip == DivInt(Mul(sub, tipPercentage), 100)
    IN  Round10(Add(sub, personTip))

calculateItems(items, tipPercentage) ==
    LET names == scanPersons(items)
        persons == Len(names)
    IN  [i \in 1..Len(names) |->
            [name |-> names[i],
             amount |-> calculatePersonAmount(items, tipPercentage, names[i], persons)]]

\* mutant: the difference goes to the last participant
adjustAmountLast(totalAmount, items) ==
    LET currentTotal == SumAmounts(items)
        difference == Round10(Sub(totalAmount, currentTotal))
        n == Len(items)
    IN  IF difference = Zero THEN Return(items)
        ELSE IF n > 0
             THEN Return([items EXCEPT ![n].amount = Round10(Add(items[n].amount, difference))])
             ELSE Return(items)

\* mutant: no items.length test, so items[0].amount of an empty array is
\* read and the call throws a TypeError
adjustAmountUnguarded(totalAmount, items) ==
    LET currentTotal == SumAmounts(items)
        difference == Round10(Sub(totalAmount, currentTotal))
    IN  IF difference = Zero THEN Return(items)
        ELSE IF Len(items) = 0 THEN Throw
             ELSE Return([items EXCEPT ![1].amount = Round10(Add(items[1].amount, difference))])

\* the items array as adjustAmount leaves it
adjustAmount(totalAmount, items) ==
    LET currentTotal == SumAmounts(items)
        difference == Round10(Sub(totalAmount, currentTotal))
    IN  IF difference = Zero THEN Return(items)
        ELSE IF Len(items) > 0
             THEN Return([items EXCEPT ![1].amount = Round10(Add(items[1].amount, difference))])
             ELSE Return(items)

\* splitBill's result, with the items as they were before adjustAmount
splitBill(in) ==
    LET date == formatDate(in.date)
        subTotal == calculateSubTotal(in.items)
        tip == calculateTip(subTotal, in.tipPercentage)
        totalAmount == Add(subTotal, tip)
        items == calculateItems(in.items, in.tipPercentage)
        adjusted == adjustAmount(totalAmount, items)
    IN  IF date.threw \/ adjusted.threw
        THEN [threw |-> TRUE, value |-> <<>>, pre |-> <<>>]
        ELSE [threw |-> FALSE,
              value |-> [date |-> date.value,
                         location |-> in.location,
                         subTotal |-> subTotal,
                         tip |-> tip,
                         totalAmount |-> totalAmount,
                         items |-> adjusted.value],
              pre |-> items]

----------------------------------------------------------------------------
(* Inputs of the splitting engine *)

Persons == {"Alice", "Bob", "Carol"}
Prices == {Num(0), Rat(25, 100), Num(10)}
\* 0 %, 12.34 %, 20 % and, since nothing in the code rejects it, -20 %
Tips == {Num(0), Rat(1234, 100), Num(20), Num(-20)}

SharedItem(p) == [isShared |-> TRUE, price |-> p]
PersonalItem(p, who) == [isShared |-> FALSE, price |-> p, person |-> who]

Items == {SharedItem(p) : p \in Prices}
             \cup {PersonalItem(p, who) : p \in Prices, who \in Persons}

ItemSeqs == UNION {[1..n -> Items] : n \in 0..MaxItems}
ShortItemSeqs == {<<>>} \cup {<<it>> : it \in Items}

Date_2024_03_21 == StringDate(<<"2", "0", "2", "4", "-", "0", "3", "-", "2", "1">>)
Date_2024_03_01 == StringDate(<<"2", "0", "2", "4", "-", "0", "3", "-", "0", "1">>)
Date_2024_13_05 == StringDate(<<"2", "0", "2", "4", "-", "1", "3", "-", "0", "5">>)
Date_2024_03 == StringDate(<<"2", "0", "2", "4", "-", "0", "3">>)
Date_abc == StringDate(<<"a", "b", "c">>)
Date_empty == StringDate(<<>>)
Date_0024_10_09 == StringDate(<<"0", "0", "2", "4", "-", "1", "0", "-", "0", "9">>)

\* the values of type string that BillInput.date takes in the model
Dates == {Date_2024_03_21, Date_2024_03_01, Date_2024_13_05, Date_0024_10_09,
          Date_2024_03, Date_abc, Date_empty}

\* The inputs of type BillInput.  formatDate reads only the date, and every
\* other step only the items and the tip percentage, so the dates are
\* combined with the short item lists, and the longer item lists with one
\* date and the tip percentages with one decimal place at most.
BillInputs ==
    [date : {Date_2024_03_21}, location : {"Cafe"},
     tipPercentage : Tips \ {Rat(1234, 100)}, items : ItemSeqs]
        \cup [date : Dates, location : {"Cafe"}, tipPercentage : Tips, items : ShortItemSeqs]

NoOutput == [date |-> <<>>, location |-> "", subTotal |-> Zero, tip |-> Zero,
             totalAmount |-> Zero, items |-> <<>>]

----------------------------------------------------------------------------
(* cli.ts: documents, files and paths *)

Absent == "absent"

\* A date no JSON document gives: the member is missing
UndefinedDate == [type |-> "undefined", chars |-> <<>>]

\* What is at an input path.  readable: the path can be opened and read as a
\* file; json: its text parses; then the members of the parsed object, a
\* missing member being Absent (date: UndefinedDate) and items carrying
\* whether it is an array.
Doc(date, location, itemsKind) ==
    [readable |-> TRUE, json |-> TRUE, date |-> date, location |-> location,
     tipPercentage |-> Num(20),
     items |-> [kind |-> itemsKind,
                elems |-> IF itemsKind = "array"
                          THEN <<PersonalItem(Num(10), "Alice"), SharedItem(Rat(25, 100))>>
                          ELSE <<>>]]

ValidDoc == Doc(Date_2024_03_21, "Cafe", "array")
ShortDateDoc == Doc(Date_2024_03, "Cafe", "array")
NumberDateDoc == Doc(NumberDate, "Cafe", "array")
NoDateDoc == Doc(UndefinedDate, "Cafe", "array")
EmptyDateDoc == Doc(Date_empty, "Cafe", "array")
NoLocationDoc == Doc(Date_2024_03_21, Absent, "array")
NoItemsDoc == Doc(Date_2024_03_21, "Cafe", "undefined")
ItemsObjectDoc == Doc(Date_2024_03_21, "Cafe", "object")
BadJsonDoc == [ValidDoc EXCEPT !.json = FALSE]
UnreadableDoc == [ValidDoc EXCEPT !.readable = FALSE]

Docs == {ValidDoc, ShortDateDoc, NumberDateDoc, NoDateDoc, EmptyDateDoc, NoLocationDoc,
         NoItemsDoc, ItemsObjectDoc, BadJsonDoc, UnreadableDoc}

\* the file names a directory may hold, as path.parse splits them
FileNames == << [base |-> "a", ext |-> "json"], [base |-> "a", ext |-> "JSON"],
                [base |-> "b", ext |-> "json"], [base |-> "b", ext |-> "txt"] >>

\* ext.toLowerCase()
ToLowerCase(ext) == IF ext = "JSON" THEN "json" ELSE ext

\* file.toLowerCase().endsWith('.json')
IsJsonFile(name) == ToLowerCase(name.ext) = "json"

\* the entries of jsonFiles, as positions in files
JsonIndexes == {i \in 1..Len(files) : IsJsonFile(files[i].name)}

Formats == {"json", "text", "yaml"}

\* mutant: the text report is the default, JSON is written for "json" only
SerializationTextByDefault(format) == IF format = "json" THEN "json" ELSE "text"

\* writeResultFile's choice of content
Serialization(format) == IF format = "text" THEN "text" ELSE "json"

\* the output path of a batch entry: <outputDir>/<base>-result.<extension>
BatchOutputPath(name, format) ==
    [dir |-> "out", base |-> name.base, suffix |-> "-result",
     ext |-> IF format = "text" THEN "txt" ELSE "json"]

\* the --output path of a single document run
SingleOutputPath == [dir |-> "", base |-> "result", suffix |-> "", ext |-> "out"]

OutputPath(i) ==
    IF args.batch THEN BatchOutputPath(files[i].name, args.format) ELSE SingleOutputPath

----------------------------------------------------------------------------
(* cli.ts: reading, splitting and writing one document *)

\* `!x` of a date member: missing, or the empty string
DateFalsy(date) == date.type = "undefined" \/ (date.type = "string" /\ date.chars = <<>>)

\* mutant: the parsed object is returned without the test of its members
readBillFileUnvalidated(doc) ==
    IF ~doc.readable THEN Throw
    ELSE IF ~doc.json THEN Throw
    ELSE Return(doc)

\* readBillFile and readBillFileAsync: the parsed document, or an error
readBillFile(doc) ==
    IF ~doc.readable THEN Throw
    ELSE IF ~doc.json THEN Throw
    ELSE IF DateFalsy(doc.date) \/ doc.location = Absent
              \/ doc.items.kind = "undefined" \/ doc.items.kind # "array"
         THEN Throw
         ELSE Return(doc)

\* splitBill(billData) on a parsed document: a date that is no string has no
\* split method, and items that is no array cannot be iterated
splitBillData(billData) ==
    IF billData.date.type # "string" \/ billData.items.kind # "array"
    THEN [threw |-> TRUE, value |-> <<>>, pre |-> <<>>]
    ELSE splitBill([date |-> billData.date, location |-> billData.location,
                    tipPercentage |-> billData.tipPercentage,
                    items |-> billData.items.elems])

\* The part of processSingleFile(Async) up to the write: "readError",
\* "splitError", or "write" when a result is ready to be written.
ReadAndSplit(doc) ==
    LET billData == readBillFile(doc)
    IN  IF billData.threw THEN "readError"
        ELSE IF splitBillData(billData.value).threw THEN "splitError"
        ELSE "write"

\* whether splitBill is reached
CallsSplitBill(doc) == ~readBillFile(doc).threw

\* writeResultFile(Async): the artifact written when the write succeeds
Artifact(i) == [path |-> OutputPath(i), from |-> i, serialization |-> Serialization(args.format)]

\* processSingleFile as a whole, the file system letting the write succeed or not
processSingleFile(doc, writeOk) ==
    LET r == ReadAndSplit(doc)
    IN  IF r # "write" THEN r ELSE IF writeOk THEN "ok" ELSE "writeError"

----------------------------------------------------------------------------
(* cli.ts: main *)

\* main, single document, synchronous: read, split, write, or exit(1)
MainSingle ==
    /\ mainPc = "start" /\ ~args.batch /\ ~args.async
    /\ \E writeOk \in BOOLEAN :
        LET r == processSingleFile(files[1].doc, writeOk)
        IN  /\ outcome' = [outcome EXCEPT ![1] = r]
            /\ written' = IF r = "ok" THEN written \cup {Artifact(1)} ELSE written
            /\ exitCode' = IF r = "ok" THEN 0 ELSE 1
    /\ started' = [started EXCEPT ![1] = @ + 1]
    /\ splits' = [splits EXCEPT ![1] = IF CallsSplitBill(files[1].doc) THEN @ + 1 ELSE @]
    /\ mainPc' = "ended"
    /\ UNCHANGED <<args, files, idx, taskPc, successCount, errorCount, reported>>

\* main, single document, --async: up to the await of the write
MainSingleAsyncRead ==
    /\ mainPc = "start" /\ ~args.batch /\ args.async
    /\ LET r == ReadAndSplit(files[1].doc)
       IN  /\ mainPc' = IF r = "write" THEN "write" ELSE "ended"
           /\ outcome' = IF r = "write" THEN outcome ELSE [outcome EXCEPT ![1] = r]
           /\ exitCode' = IF r = "write" THEN exitCode ELSE 1
    /\ started' = [started EXCEPT ![1] = @ + 1]
    /\ splits' = [splits EXCEPT ![1] = IF CallsSplitBill(files[1].doc) THEN @ + 1 ELSE @]
    /\ UNCHANGED <<args, files, idx, taskPc, written, successCount, errorCount, reported>>

\* main, single document, --async: writeResultFileAsync settles
MainSingleAsyncWrite ==
    /\ mainPc = "write" /\ ~args.batch
    /\ \E writeOk \in BOOLEAN :
        /\ outcome' = [outcome EXCEPT ![1] = IF writeOk THEN "ok" ELSE "writeError"]
        /\ written' = IF writeOk THEN written \cup {Artifact(1)} ELSE written
        /\ exitCode' = IF writeOk THEN 0 ELSE 1
    /\ mainPc' = "ended"
    /\ UNCHANGED <<args, files, idx, taskPc, started, splits, successCount, errorCount,
                   reported>>

\* processBatchFiles up to its loop; without JSON files it returns at once
BatchStart ==
    /\ mainPc = "start" /\ args.batch /\ ~args.async
    /\ IF JsonIndexes = {}
       THEN mainPc' = "ended" /\ exitCode' = 0
       ELSE mainPc' = "loop" /\ UNCHANGED exitCode
    /\ UNCHANGED <<args, files, idx, taskPc, outcome, started, splits, written,
                   successCount, errorCount, reported>>

\* the entry the for loop takes after the first n entries of files
NextJson(n) == CHOOSE i \in JsonIndexes : i > n /\ \A j \in JsonIndexes : j > n => i <= j

\* mutant: no try/catch around the entry, so the first error ends the loop
\* (and main exits with code 1)
BatchIterationAborting ==
    /\ mainPc = "loop"
    /\ \E i \in JsonIndexes : i > idx
    /\ LET i == NextJson(idx) IN
        \E writeOk \in BOOLEAN :
            LET r == processSingleFile(files[i].doc, writeOk)
            IN  /\ outcome' = [outcome EXCEPT ![i] = r]
                /\ written' = IF r = "ok" THEN written \cup {Artifact(i)} ELSE written
                /\ successCount' = IF r = "ok" THEN successCount + 1 ELSE successCount
                /\ idx' = i
                /\ mainPc' = IF r = "ok" THEN "loop" ELSE "ended"
                /\ exitCode' = IF r = "ok" THEN exitCode ELSE 1
                /\ started' = [started EXCEPT ![i] = @ + 1]
                /\ splits' = [splits EXCEPT ![i] =
                                  IF CallsSplitBill(files[i].doc) THEN @ + 1 ELSE @]
    /\ UNCHANGED <<args, files, taskPc, errorCount, reported>>

\* one iteration of processBatchFiles' for loop: the try block and its catch
BatchIteration ==
    /\ mainPc = "loop"
    /\ \E i \in JsonIndexes : i > idx
    /\ LET i == NextJson(idx) IN
        \E writeOk \in BOOLEAN :
            LET r == processSingleFile(files[i].doc, writeOk)
            IN  /\ outcome' = [outcome EXCEPT ![i] = r]
                /\ written' = IF r = "ok" THEN written \cup {Artifact(i)} ELSE written
                /\ successCount' = IF r = "ok" THEN successCount + 1 ELSE successCount
                /\ errorCount' = IF r = "ok" THEN errorCount ELSE errorCount + 1
                /\ idx' = i
                /\ started' = [started EXCEPT ![i] = @ + 1]
                /\ splits' = [splits EXCEPT ![i] =
                                  IF CallsSplitBill(files[i].doc) THEN @ + 1 ELSE @]
    /\ UNCHANGED <<args, files, mainPc, taskPc, reported, exitCode>>

\* processBatchFiles after its loop: the counts are printed and main ends
BatchReport ==
    /\ mainPc = "loop"
    /\ ~\E i \in JsonIndexes : i > idx
    /\ reported' = TRUE
    /\ mainPc' = "ended"
    /\ exitCode' = 0
    /\ UNCHANGED <<args, files, idx, taskPc, outcome, started, splits, written,
                   successCount, errorCount>>

\* processBatchFilesAsync up to Promise.allSettled: jsonFiles.map starts one
\* task per entry, each running to its first await
AsyncBatchStart ==
    /\ mainPc = "start" /\ args.batch /\ args.async
    /\ IF JsonIndexes = {}
       THEN /\ mainPc' = "ended" /\ exitCode' = 0
            /\ UNCHANGED <<taskPc, started>>
       ELSE /\ mainPc' = "tasks"
            /\ taskPc' = [i \in 1..Len(files) |-> IF i \in JsonIndexes THEN "read" ELSE "none"]
            /\ started' = [i \in 1..Len(files) |->
                              IF i \in JsonIndexes THEN started[i] + 1 ELSE started[i]]
            /\ UNCHANGED exitCode
    /\ UNCHANGED <<args, files, idx, outcome, splits, written, successCount, errorCount,
                   reported>>

\* a task's readBillFileAsync settles; on success splitBill runs and the
\* write is awaited, on an error the task's catch returns {success: false}
TaskRead(i) ==
    /\ mainPc = "tasks"
    /\ taskPc[i] = "read"
    /\ LET r == ReadAndSplit(files[i].doc)
       IN  /\ taskPc' = [taskPc EXCEPT ![i] = IF r = "write" THEN "write" ELSE "settled"]
           /\ outcome' = IF r = "write" THEN outcome ELSE [outcome EXCEPT ![i] = r]
    /\ splits' = [splits EXCEPT ![i] = IF CallsSplitBill(files[i].doc) THEN @ + 1 ELSE @]
    /\ UNCHANGED <<args, files, mainPc, idx, started, written, successCount, errorCount,
                   reported, exitCode>>

\* a task's writeResultFileAsync settles, and with it the task
TaskWrite(i) ==
    /\ mainPc = "tasks"
    /\ taskPc[i] = "write"
    /\ \E writeOk \in BOOLEAN :
        /\ outcome' = [outcome EXCEPT ![i] = IF writeOk THEN "ok" ELSE "writeError"]
        /\ written' = IF writeOk THEN written \cup {Artifact(i)} ELSE written
    /\ taskPc' = [taskPc EXCEPT ![i] = "settled"]
    /\ UNCHANGED <<args, files, mainPc, idx, started, splits, successCount, errorCount,
                   reported, exitCode>>

\* the counting loop over Promise.allSettled's results and the report
CountResults ==
    /\ successCount' = Cardinality({i \in JsonIndexes : outcome[i] = "ok"})
    /\ errorCount' = Cardinality({i \in JsonIndexes : taskPc[i] = "settled" /\ outcome[i] # "ok"})
    /\ reported' = TRUE
    /\ mainPc' = "ended"
    /\ exitCode' = 0
    /\ UNCHANGED <<args, files, idx, taskPc, outcome, started, splits, written>>

\* mutant: the results are counted as soon as one task has settled
AsyncBatchSettledFirst ==
    /\ mainPc = "tasks"
    /\ \E i \in JsonIndexes : taskPc[i] = "settled"
    /\ CountResults

\* await Promise.allSettled(tasks): main resumes once every task has settled
AsyncBatchSettled ==
    /\ mainPc = "tasks"
    /\ \A i \in JsonIndexes : taskPc[i] = "settled"
    /\ CountResults

----------------------------------------------------------------------------
(* Specifications *)

CoreIdle ==
    /\ input = [date |-> Date_2024_03_21, location |-> "Cafe", tipPercentage |-> Zero,
                items |-> <<>>]
    /\ phase = "idle"
    /\ preItems = <<>>
    /\ output = NoOutput

CliIdle ==
    /\ args = [batch |-> FALSE, async |-> FALSE, format |-> "json"]
    /\ files = <<>>
    /\ mainPc = "idle"
    /\ idx = 0
    /\ taskPc = <<>>
    /\ outcome = <<>>
    /\ started = <<>>
    /\ splits = <<>>
    /\ written = {}
    /\ successCount = 0
    /\ errorCount = 0
    /\ reported = FALSE
    /\ exitCode = 0

\* splitBill is called on an input of type BillInput
Init ==
    /\ input \in BillInputs
    /\ phase = "called"
    /\ preItems = <<>>
    /\ output = NoOutput
    /\ CliIdle

\* one call of splitBill(input)
SplitBill ==
    /\ phase = "called"
    /\ LET r == splitBill(input)
       IN  /\ phase' = IF r.threw THEN "threw" ELSE "returned"
           /\ output' = IF r.threw THEN NoOutput ELSE r.value
           /\ preItems' = r.pre
    /\ UNCHANGED <<input, cliVars>>

Next == SplitBill

Spec == Init /\ [][Next]_vars

\* the entries a directory may have: names in the order of FileNames, each
\* JSON file with any document
Entry(k, doc) == [name |-> FileNames[k], doc |-> doc]

RECURSIVE Directories(_, _)
\* the directories of at most n entries whose names come after FileNames[from]
Directories(from, n) ==
    IF n = 0 THEN {<<>>}
    ELSE {<<>>} \cup
         UNION { { <<Entry(k, doc)>> \o rest : rest \in Directories(k, n - 1) }
                 : k \in (from + 1)..Len(FileNames),
                   doc \in Docs }

\* a directory's non-JSON entries are never opened: one document stands for all
InputSets ==
    {d \in Directories(0, MaxFiles) :
        \A i \in 1..Len(d) : ~IsJsonFile(d[i].name) => d[i].doc = ValidDoc}

\* main is started on a single document or on a directory
CliInit ==
    /\ CoreIdle
    /\ \E batch \in BOOLEAN, async \in BOOLEAN, format \in Formats :
        args = [batch |-> batch, async |-> async, format |-> format]
    /\ IF args.batch
       THEN files \in InputSets
       ELSE files \in {<<[name |-> FileNames[1], doc |-> doc]>> : doc \in Docs}
    /\ mainPc = "start"
    /\ idx = 0
    /\ taskPc = [i \in 1..Len(files) |-> "none"]
    /\ outcome = [i \in 1..Len(files) |-> "none"]
    /\ started = [i \in 1..Len(files) |-> 0]
    /\ splits = [i \in 1..Len(files) |-> 0]
    /\ written = {}
    /\ successCount = 0
    /\ errorCount = 0
    /\ reported = FALSE
    /\ exitCode = 0

CliNext ==
    \/ (MainSingle /\ UNCHANGED coreVars)
    \/ (MainSingleAsyncRead /\ UNCHANGED coreVars)
    \/ (MainSingleAsyncWrite /\ UNCHANGED coreVars)
    \/ (BatchStart /\ UNCHANGED coreVars)
    \/ (BatchIteration /\ UNCHANGED coreVars)
    \/ (BatchReport /\ UNCHANGED coreVars)
    \/ (AsyncBatchStart /\ UNCHANGED coreVars)
    \/ (\E i \in 1..Len(files) : TaskRead(i) /\ UNCHANGED coreVars)
    \/ (\E i \in 1..Len(files) : TaskWrite(i) /\ UNCHANGED coreVars)
    \/ (AsyncBatchSettled /\ UNCHANGED coreVars)

CliSpec == CliInit /\ [][CliNext]_vars

----------------------------------------------------------------------------
(* What the claims speak of, stated from the input alone *)

\* tipPercentage >= 0 and every price non-negative
ValidInput(in) ==
    /\ Leq(Zero, in.tipPercentage)
    /\ \A i \in 1..Len(in.items) : Leq(Zero, in.items[i].price)

PersonalIndexes(items) == {i \in 1..Len(items) : ~items[i].isShared}
SharedIndexes(items) == {i \in 1..Len(items) : items[i].isShared}

RECURSIVE SumPrices(_, _)
\* the sum of the prices of the items at the indexes in at
SumPrices(items, at) ==
    IF at = {} THEN Zero
    ELSE LET i == CHOOSE k \in at : TRUE
         IN  Add(items[i].price, SumPrices(items, at \ {i}))

\* the position of p's first personal item
FirstItemOf(items, p) ==
    CHOOSE i \in PersonalIndexes(items) :
        /\ items[i].person = p
        /\ \A j \in PersonalIndexes(items) : items[j].person = p => i <= j

\* s of a participant p among n participants
ParticipantSubTotal(items, p, n) ==
    Add(SumPrices(items, {i \in PersonalIndexes(items) : items[i].person = p}),
        DivInt(SumPrices(items, SharedIndexes(items)), n))

\* t is the multiple of 0.1 nearest to x, the larger one of two equally near
NearestTenthTieUp(t, x) ==
    /\ Mul(t, Num(10))[2] = 1
    /\ Less(Sub(x, Rat(1, 20)), t)
    /\ Leq(t, Add(x, Rat(1, 20)))

\* x to the nearest 0.1, a tie going away from zero
RoundHalfAwayFromZero(x) ==
    IF Less(x, Zero)
    THEN Neg(Rat((2 * (-x[1]) * 10 + x[2]) \div (2 * x[2]), 10))
    ELSE Rat((2 * x[1] * 10 + x[2]) \div (2 * x[2]), 10)

\* round(totalAmount - sum of the amounts before reconciliation, nearest 0.1)
Drift == Round10(Sub(output.totalAmount, SumAmounts(preItems)))

----------------------------------------------------------------------------
(* Claims about splitBill *)

\* C1 (as stated): for every valid input, the amounts of output.items add up
\* to output.totalAmount exactly.
C1_Conservation ==
    (phase = "returned" /\ ValidInput(input))
        => SumAmounts(output.items) = output.totalAmount

\* C2: reconciliation changes the first participant only: with a non-zero
\* drift its amount becomes round(amount + drift) and every other amount stays;
\* with a zero drift nothing changes.
C2_OnlyFirstAdjusted ==
    phase = "returned" =>
        /\ Len(output.items) = Len(preItems)
        /\ \A i \in 1..Len(preItems) :
            /\ output.items[i].name = preItems[i].name
            /\ output.items[i].amount =
                   IF Drift # Zero /\ i = 1
                   THEN Round10(Add(preItems[1].amount, Drift))
                   ELSE preItems[i].amount

C2_Witness ==
    /\ phase = "returned"
    /\ Len(preItems) >= 2
    /\ Drift # Zero
    /\ output.items[1].amount # preItems[1].amount

\* C3 (as stated, on valid inputs already): the amount before reconciliation
\* is round(s + round(s * tipPercentage / 100)): the tip is rounded on its own.
C3_TipRoundedFirst ==
    (phase = "returned" /\ ValidInput(input)) =>
        \A i \in 1..Len(preItems) :
            LET s == ParticipantSubTotal(input.items, preItems[i].name, Len(preItems))
            IN  preItems[i].amount =
                    Round10(Add(s, Round10(DivInt(Mul(s, input.tipPercentage), 100))))

\* C3 (amended): the amount before reconciliation is
\* round(s + s * tipPercentage / 100): the tip is added unrounded and the sum
\* is rounded once.
C3_PersonAmount ==
    phase = "returned" =>
        \A i \in 1..Len(preItems) :
            LET s == ParticipantSubTotal(input.items, preItems[i].name, Len(preItems))
            IN  NearestTenthTieUp(preItems[i].amount,
                                  Add(s, DivInt(Mul(s, input.tipPercentage), 100)))

C3_Witness ==
    /\ phase = "returned"
    /\ Len(preItems) >= 2
    /\ SumPrices(input.items, SharedIndexes(input.items)) # Zero
    /\ input.tipPercentage # Zero
    /\ \E i \in 1..Len(preItems) :
        LET s == ParticipantSubTotal(input.items, preItems[i].name, Len(preItems))
        IN  Mul(s, Num(10))[2] # 1

\* C4 (as stated): subTotal is the unrounded sum of the prices, tip is
\* subTotal * tipPercentage / 100 to the nearest 0.1 with a tie going away
\* from zero, totalAmount is subTotal + tip; no items give 0, 0, 0 and
\* subTotal 10 at 12.34 % gives tip 1.2.
C4_TipHalfAwayFromZero ==
    phase = "returned" =>
        LET all == 1..Len(input.items)
            tipAmount == DivInt(Mul(output.subTotal, input.tipPercentage), 100)
        IN  /\ output.subTotal = SumPrices(input.items, all)
            /\ output.tip = RoundHalfAwayFromZero(tipAmount)
            /\ output.totalAmount = Add(output.subTotal, output.tip)
            /\ (input.items = <<>> =>
                    output.subTotal = Zero /\ output.tip = Zero /\ output.totalAmount = Zero)
            /\ (output.subTotal = Num(10) /\ input.tipPercentage = Rat(1234, 100)
                    => output.tip = Rat(12, 10))

\* C4 (amended): as stated, but the tip is the nearest 0.1 with a tie going to
\* the larger value (Math.round); that is half away from zero whenever
\* subTotal * tipPercentage >= 0.
C4_Totals ==
    phase = "returned" =>
        LET all == 1..Len(input.items)
            tipAmount == DivInt(Mul(output.subTotal, input.tipPercentage), 100)
        IN  /\ output.subTotal = SumPrices(input.items, all)
            /\ NearestTenthTieUp(output.tip, tipAmount)
            /\ (Leq(Zero, tipAmount) => output.tip = RoundHalfAwayFromZero(tipAmount))
            /\ output.totalAmount = Add(output.subTotal, output.tip)
            /\ (input.items = <<>> =>
                    output.subTotal = Zero /\ output.tip = Zero /\ output.totalAmount = Zero)
            /\ (output.subTotal = Num(10) /\ input.tipPercentage = Rat(1234, 100)
                    => output.tip = Rat(12, 10))

C4_Witness ==
    /\ phase = "returned"
    /\ output.subTotal = Num(10)
    /\ input.tipPercentage = Rat(1234, 100)
    /\ output.tip = Rat(12, 10)
    /\ output.totalAmount = Rat(112, 10)

\* C5: output.items has exactly one entry per person named on a personal
\* item, without duplicates, in the order of each person's first personal
\* item; a shared item introduces nobody.
C5_ParticipantDiscovery ==
    phase = "returned" =>
        LET names == [i \in 1..Len(output.items) |-> output.items[i].name]
        IN  /\ {names[i] : i \in 1..Len(names)}
                   = {input.items[i].person : i \in PersonalIndexes(input.items)}
            /\ \A i, j \in 1..Len(names) : i # j => names[i] # names[j]
            /\ \A i, j \in 1..Len(names) :
                   i < j => FirstItemOf(input.items, names[i])
                                < FirstItemOf(input.items, names[j])

C5_Witness ==
    /\ phase = "returned"
    /\ Len(output.items) = 2
    /\ Len(input.items) = 3
    /\ input.items[1].isShared
    /\ output.items[1].name = "Bob"
    /\ output.items[2].name = "Alice"

\* C6: an input without personal items returns normally with no output
\* items, while subTotal, tip and totalAmount reflect the shared items.
C6_NoParticipants ==
    (phase # "called" /\ PersonalIndexes(input.items) = {}) =>
        /\ phase = "returned"
        /\ output.items = <<>>
        /\ output.subTotal = SumPrices(input.items, SharedIndexes(input.items))
        /\ NearestTenthTieUp(output.tip,
               DivInt(Mul(output.subTotal, input.tipPercentage), 100))
        /\ output.totalAmount = Add(output.subTotal, output.tip)

C6_Witness ==
    /\ phase = "returned"
    /\ PersonalIndexes(input.items) = {}
    /\ input.items # <<>>
    /\ output.items = <<>>
    /\ Less(Zero, output.tip)
    /\ Less(output.tip, output.totalAmount)

\* the date splits on "-" into three components, each made of digits
ThreeNumericComponents(date) ==
    /\ date.type = "string"
    /\ LET parts == Split(date.chars)
       IN  /\ Len(parts) = 3
           /\ \A i \in 1..3 :
                  /\ parts[i] # <<>>
                  /\ \A j \in 1..Len(parts[i]) : IsDigit(parts[i][j])

\* C7 (as stated): a date that does not split into three numeric components
\* makes splitBill fail; no BillOutput is returned.
C7_MalformedDateFails ==
    (phase # "called" /\ ~ThreeNumericComponents(input.date)) => phase = "threw"

----------------------------------------------------------------------------
(* Claims about the command line runner *)

\* the entries whose name ends in .json, in either case
JsonNamed == {i \in 1..Len(files) : files[i].name.ext \in {"json", "JSON"}}

\* processing of entry i raised an error
Raised(i) == outcome[i] \in {"readError", "splitError", "writeError"}

\* the parsed document lacks date, location or items, or items is no array
LacksField(doc) ==
    /\ doc.readable
    /\ doc.json
    /\ \/ doc.date = UndefinedDate
       \/ doc.location = Absent
       \/ doc.items.kind # "array"

\* the document cannot be turned into a result, whatever the file system does
Broken(doc) ==
    \/ ~doc.readable
    \/ ~doc.json
    \/ LacksField(doc)
    \/ doc.date = Date_empty
    \/ doc.date = NumberDate

\* C8: in a batch every JSON file is processed exactly once whatever failed
\* before it, every error is caught and counted, and at the end
\* successCount + errorCount is the number of JSON files and errorCount the
\* number of files that raised an error.
C8_BatchContinuesOnError ==
    /\ \A i \in 1..Len(files) : started[i] <= 1
    /\ (args.batch /\ mainPc = "ended") =>
        /\ exitCode = 0
        /\ reported <=> JsonNamed # {}
        /\ \A i \in 1..Len(files) : started[i] = IF i \in JsonNamed THEN 1 ELSE 0
        /\ \A i \in JsonNamed :
            /\ outcome[i] # "none"
            /\ Broken(files[i].doc) => Raised(i)
            /\ Raised(i) <=> ~\E w \in written : w.from = i
        /\ successCount + errorCount = Cardinality(JsonNamed)
        /\ errorCount = Cardinality({i \in JsonNamed : Raised(i)})

C8_Witness ==
    /\ args.batch
    /\ ~args.async
    /\ mainPc = "ended"
    /\ reported
    /\ Cardinality(JsonNamed) >= 2
    /\ \E i, j \in JsonNamed : i < j /\ Raised(i) /\ outcome[j] = "ok"
    /\ errorCount >= 1
    /\ successCount >= 1

\* C9: in the async batch the counts are computed and reported only after
\* every task has settled, whatever the order of completion; a task that
\* failed neither cancels a sibling nor keeps it from completing, and the
\* counts are those of the tasks' own outcomes.
C9_WaitForAll ==
    (args.batch /\ args.async) =>
        /\ reported =>
            /\ \A i \in JsonNamed : taskPc[i] = "settled"
            /\ successCount = Cardinality({i \in JsonNamed : outcome[i] = "ok"})
            /\ errorCount = Cardinality({i \in JsonNamed : Raised(i)})
        /\ \A i \in JsonNamed :
            /\ (mainPc = "tasks" /\ taskPc[i] # "settled")
                   => (taskPc[i] \in {"read", "write"} /\ ~reported)
            /\ taskPc[i] = "settled" =>
                   IF Broken(files[i].doc) THEN Raised(i)
                   ELSE outcome[i] \in {"ok", "writeError"}

C9_Witness ==
    /\ args.batch
    /\ args.async
    /\ reported
    /\ \E i, j \in JsonNamed :
        /\ i < j
        /\ Raised(i)
        /\ outcome[j] = "ok"
        /\ \E w \in written : w.from = j
    /\ successCount >= 1
    /\ errorCount >= 1

\* C10: a document that lacks date, location or items, or whose items is no
\* array, fails in reading: splitBill is never called on it and no artifact
\* is written for it; a single document run ends with exit code 1, a batch
\* counts the document as a failure.
C10_ValidationBeforeSplit ==
    \A i \in 1..Len(files) :
        LacksField(files[i].doc) =>
            /\ splits[i] = 0
            /\ \A w \in written : w.from # i
            /\ (~args.batch /\ mainPc = "ended")
                   => (exitCode = 1 /\ outcome[i] = "readError")
            /\ (args.batch /\ reported /\ i \in JsonNamed) =>
                   /\ outcome[i] = "readError"
                   /\ errorCount >= Cardinality({j \in JsonNamed : LacksField(files[j].doc)})

C10_Witness ==
    /\ args.batch
    /\ reported
    /\ \E i, j \in JsonNamed :
        /\ files[i].doc = ItemsObjectDoc
        /\ outcome[i] = "readError"
        /\ splits[i] = 0
        /\ outcome[j] = "ok"
        /\ splits[j] = 1
    /\ errorCount = 1

\* C11: the text report is written if and only if format is exactly "text",
\* any other format gives the JSON serialization; in a batch the artifact of
\* <base>.json is <base>-result.txt for "text" and <base>-result.json
\* otherwise, so the extension matches what was written.
C11_FormatAndName ==
    \A w \in written :
        /\ w.serialization = IF args.format = "text" THEN "text" ELSE "json"
        /\ args.batch =>
            /\ w.path.base = files[w.from].name.base
            /\ w.path.suffix = "-result"
            /\ w.path.ext = IF args.format = "text" THEN "txt" ELSE "json"
            /\ w.path.ext = "txt" <=> w.serialization = "text"
            /\ w.path.ext = "json" <=> w.serialization = "json"

C11_Witness ==
    /\ args.batch
    /\ args.format = "yaml"
    /\ \E w \in written :
        /\ w.serialization = "json"
        /\ w.path.base = "b"
        /\ w.path.ext = "json"

\* C14 (as stated): in one batch run two different JSON input files never
\* have the same output path: no artifact is overwritten by another
\* document's result, and no two running async tasks write the same file.
C14_DistinctOutputPaths ==
    args.batch =>
        /\ \A w1, w2 \in written : w1.from # w2.from => w1.path # w2.path
        /\ \A i, j \in JsonNamed :
               (i # j /\ taskPc[i] = "write" /\ taskPc[j] = "write")
                   => OutputPath(i) # OutputPath(j)

----------------------------------------------------------------------------
(* Further claims about splitBill *)

RECURSIVE WithoutLeadingZeros(_)
\* a string of digits without its leading zeros, one digit kept at least
WithoutLeadingZeros(s) ==
    IF Len(s) > 1 /\ s[1] = "0" THEN WithoutLeadingZeros(Tail(s)) ELSE s

\* C12: a date of three numeric components YYYY-MM-DD is rendered as
\* {year}<nian>{month}<yue>{day}<ri>, month and day without leading zeros, the
\* year as it stands; month 13 is rendered as 13, not rejected.
C12_DateFormat ==
    (phase # "called" /\ ThreeNumericComponents(input.date)) =>
        /\ phase = "returned"
        /\ LET parts == Split(input.date.chars)
           IN  output.date = parts[1] \o <<YearSign>> \o WithoutLeadingZeros(parts[2])
                                 \o <<MonthSign>> \o WithoutLeadingZeros(parts[3])
                                 \o <<DaySign>>
        /\ input.date = Date_2024_03_01 =>
               output.date = <<"2", "0", "2", "4", YearSign, "3", MonthSign, "1", DaySign>>
        /\ input.date = Date_2024_13_05 =>
               output.date = <<"2", "0", "2", "4", YearSign, "1", "3", MonthSign, "5", DaySign>>
        /\ input.date = Date_0024_10_09 =>
               output.date = <<"0", "0", "2", "4", YearSign, "1", "0", MonthSign, "9", DaySign>>

C12_Witness ==
    /\ phase = "returned"
    /\ input.date = Date_2024_13_05
    /\ output.date = <<"2", "0", "2", "4", YearSign, "1", "3", MonthSign, "5", DaySign>>

\* C13 (as stated): for tipPercentage >= 0 and non-negative prices every
\* amount of output.items is >= 0 after reconciliation.
C13_NonNegativeAmounts ==
    (phase = "returned" /\ ValidInput(input)) =>
        \A i \in 1..Len(output.items) : Leq(Zero, output.items[i].amount)

----------------------------------------------------------------------------
(* Natural numbers of any size, as sequences of limbs, lowest limb first,    *)
(* without leading zero limbs                                                *)

LimbBits == 15
Base == 2 ^ LimbBits

BigNorm[a \in Seq(Nat)] ==
    IF a = <<>> THEN <<>>
    ELSE IF a[Len(a)] = 0 THEN BigNorm[SubSeq(a, 1, Len(a) - 1)] ELSE a

BigFromNat[k \in Nat] == IF k = 0 THEN <<>> ELSE <<k % Base>> \o BigFromNat[k \div Base]

BigToNat[a \in Seq(Nat)] == IF a = <<>> THEN 0 ELSE a[1] + Base * BigToNat[Tail(a)]

Limb(a, i) == IF i <= Len(a) THEN a[i] ELSE 0
Rest(a) == IF a = <<>> THEN <<>> ELSE Tail(a)

BigAddCarry[a \in Seq(Nat), b \in Seq(Nat), c \in Nat] ==
    IF a = <<>> /\ b = <<>> THEN (IF c = 0 THEN <<>> ELSE <<c>>)
    ELSE LET t == Limb(a, 1) + Limb(b, 1) + c
         IN  <<t % Base>> \o BigAddCarry[Rest(a), Rest(b), t \div Base]

BigAdd[a \in Seq(Nat), b \in Seq(Nat)] == BigAddCarry[a, b, 0]

BigSubBorrow[a \in Seq(Nat), b \in Seq(Nat), c \in Nat] ==
    IF a = <<>> THEN <<>>
    ELSE LET t == a[1] - Limb(b, 1) - c
         IN  <<t % Base>> \o BigSubBorrow[Tail(a), Rest(b), IF t < 0 THEN 1 ELSE 0]

\* a - b for a >= b
BigSub[a \in Seq(Nat), b \in Seq(Nat)] == BigNorm[BigSubBorrow[a, b, 0]]

\* -1, 0 or 1 as a is less than, equal to or greater than b
BigCmp[a \in Seq(Nat), b \in Seq(Nat)] ==
    IF Len(a) # Len(b) THEN (IF Len(a) < Len(b) THEN -1 ELSE 1)
    ELSE LET differ == {i \in 1..Len(a) : a[i] # b[i]}
         IN  IF differ = {} THEN 0
             ELSE LET top == CHOOSE i \in differ : \A j \in differ : j <= i
                  IN  IF a[top] < b[top] THEN -1 ELSE 1

BigMulCarry[a \in Seq(Nat), k \in Nat, c \in Nat] ==
    IF a = <<>> THEN BigFromNat[c]
    ELSE LET t == a[1] * k + c
         IN  <<t % Base>> \o BigMulCarry[Tail(a), k, t \div Base]

\* a * k for 0 <= k < Base
BigMulSmall[a \in Seq(Nat), k \in Nat] == BigNorm[BigMulCarry[a, k, 0]]

\* one step of long division: the limbs above gave hi, limb comes next
DivStep[hi \in [q : Seq(Nat), r : Nat], limb \in Nat, k \in Nat] ==
    [q |-> <<(hi.r * Base + limb) \div k>> \o hi.q, r |-> (hi.r * Base + limb) % k]

BigDivRem[a \in Seq(Nat), k \in Nat] ==
    IF a = <<>> THEN [q |-> <<>>, r |-> 0]
    ELSE DivStep[BigDivRem[Tail(a), k], a[1], k]

\* floor(a / k) and a mod k for 0 < k < Base
BigDivSmall[a \in Seq(Nat), k \in Nat] == LET d == BigDivRem[a, k] IN [q |-> BigNorm[d.q], r |-> d.r]

\* a * 2^d
BigShl[a \in Seq(Nat), d \in Nat] ==
    IF a = <<>> THEN <<>>
    ELSE [i \in 1..(d \div LimbBits) |-> 0] \o BigMulSmall[a, 2 ^ (d % LimbBits)]

\* floor(a / 2^d)
BigShr[a \in Seq(Nat), d \in Nat] ==
    IF Len(a) <= d \div LimbBits THEN <<>>
    ELSE BigDivSmall[SubSeq(a, d \div LimbBits + 1, Len(a)), 2 ^ (d % LimbBits)].q

\* the number of binary digits of a
BitLen[a \in Seq(Nat)] ==
    IF a = <<>> THEN 0
    ELSE LimbBits * (Len(a) - 1)
            + (CHOOSE k \in 1..LimbBits : 2 ^ (k - 1) <= a[Len(a)] /\ a[Len(a)] < 2 ^ k)

----------------------------------------------------------------------------
(* JavaScript numbers as they are: IEEE 754 binary64                         *)
(*                                                                          *)
(* A number is [neg, mag] and stands for (-1)^neg * mag / 2^FractionBits,    *)
(* mag a natural number in limbs.  Every operation computes the exact       *)
(* result and rounds it to the nearest number of Precision significant      *)
(* bits, a tie going to the even one.  The numbers of a bill are far from   *)
(* the exponent range's ends, so there are no subnormals, infinities or     *)
(* NaNs here; -0 is kept as 0, which is how === and JSON.stringify treat it. *)

Precision == 53
FractionLimbs == 5
FractionBits == FractionLimbs * LimbBits

\* evaluating this stops the check: a result the fixed fraction cannot hold
Unrepresented == CHOOSE x \in {} : TRUE

\* the nearest natural number of at most Precision significant bits to
\* mag (+ something below 1 when sticky)
Nearest64[mag \in Seq(Nat), sticky \in BOOLEAN] ==
    LET len == BitLen[mag]
    IN  IF len <= Precision THEN (IF sticky THEN Unrepresented ELSE mag)
        ELSE LET d == len - Precision
                 q == BigShr[mag, d]
                 rem == BigSub[mag, BigShl[q, d]]
                 c == BigCmp[rem, BigShl[<<1>>, d - 1]]
                 up == c = 1 \/ (c = 0 /\ (sticky \/ q[1] % 2 = 1))
             IN  BigShl[IF up THEN BigAdd[q, <<1>>] ELSE q, d]

Number == [neg : BOOLEAN, mag : Seq(Nat)]

F64(neg, mag) == IF mag = <<>> THEN [neg |-> FALSE, mag |-> <<>>] ELSE [neg |-> neg, mag |-> mag]
F64Zero == F64(FALSE, <<>>)

\* the number of an integer literal or of Math.round's result
F64FromInt[k \in Int] == F64(k < 0, BigShl[BigFromNat[Abs(k)], FractionBits])

\* x + y without rounding
ExactAdd[x, y \in Number] ==
    IF x.neg = y.neg THEN F64(x.neg, BigAdd[x.mag, y.mag])
    ELSE LET c == BigCmp[x.mag, y.mag]
         IN  IF c = 0 THEN F64Zero
             ELSE IF c = 1 THEN F64(x.neg, BigSub[x.mag, y.mag])
             ELSE F64(y.neg, BigSub[y.mag, x.mag])

F64Neg[x \in Number] == F64(~x.neg, x.mag)

\* x + y
F64Add[x, y \in Number] == LET e == ExactAdd[x, y] IN F64(e.neg, Nearest64[e.mag, FALSE])

\* x - y
F64Sub[x, y \in Number] == F64Add[x, F64Neg[y]]

FractionPart(x) == SubSeq(x.mag, 1, IF Len(x.mag) < FractionLimbs THEN Len(x.mag) ELSE FractionLimbs)
IntegerPart(x) == BigToNat[SubSeq(x.mag, FractionLimbs + 1, Len(x.mag))]
IsInteger(x) == \A i \in 1..Len(FractionPart(x)) : x.mag[i] = 0

\* the integer k that y is, for an operand that is a whole number below Base
SmallInteger(y) ==
    IF IsInteger(y) /\ Len(y.mag) <= FractionLimbs + 1
    THEN (IF y.neg THEN -IntegerPart(y) ELSE IntegerPart(y))
    ELSE Unrepresented

\* x * y, y a whole number
F64Mul[x, y \in Number] ==
    LET k == SmallInteger(y)
    IN  F64(x.neg # (k < 0), Nearest64[BigMulSmall[x.mag, Abs(k)], FALSE])

\* x / y, y a whole number other than 0
F64Div[x, y \in Number] ==
    LET k == SmallInteger(y)
        d == BigDivSmall[x.mag, Abs(k)]
    IN  F64(x.neg # (k < 0), Nearest64[d.q, d.r # 0])

Half == F64(FALSE, BigShl[<<1>>, FractionBits - 1])

\* Math.round, as an integer: floor(x + 1/2), exactly
MathRound64[x \in Number] ==
    LET y == ExactAdd[x, Half]
    IN  IF y.neg THEN -(IntegerPart(y) + IF IsInteger(y) THEN 0 ELSE 1)
        ELSE IntegerPart(y)

Ten == F64FromInt[10]
Hundred == F64FromInt[100]

\* Math.round(x * 10) / 10
F64Round10[x \in Number] == F64Div[F64FromInt[MathRound64[F64Mul[x, Ten]]], Ten]

\* the number a decimal literal k/10 of a JSON document is parsed to
Tenths[k \in Int] == F64Div[F64FromInt[k], Ten]

RECURSIVE SumAmounts64(_)
\* items.reduce((sum, item) => sum + item.amount, 0)
SumAmounts64(items) ==
    IF items = <<>> THEN F64Zero
    ELSE F64Add[SumAmounts64(SubSeq(items, 1, Len(items) - 1)), items[Len(items)].amount]

----------------------------------------------------------------------------
(* core.ts computed in binary64 *)

RECURSIVE calculateSubTotal64(_)
calculateSubTotal64(items) ==
    IF items = <<>> THEN F64Zero
    ELSE F64Add[calculateSubTotal64(SubSeq(items, 1, Len(items) - 1)), items[Len(items)].price]

calculateTip64(subTotal, tipPercentage) ==
    LET tipAmount == F64Div[F64Mul[subTotal, tipPercentage], Hundred]
    IN  F64Round10[tipAmount]

RECURSIVE personSubTotal64(_, _, _)
\* the loop of calculatePersonAmount
personSubTotal64(items, name, persons) ==
    IF items = <<>> THEN F64Zero
    ELSE LET sofar == personSubTotal64(SubSeq(items, 1, Len(items) - 1), name, persons)
             item == items[Len(items)]
         IN  IF item.isShared
             THEN F64Add[sofar, F64Div[item.price, F64FromInt[persons]]]
             ELSE IF item.person = name THEN F64Add[sofar, item.price] ELSE sofar

calculatePersonAmount64(items, tipPercentage, name, persons) ==
    LET sub == personSubTotal64(items, name, persons)
        personTip == F64Div[F64Mul[sub, tipPercentage], Hundred]
    IN  F64Round10[F64Add[sub, personTip]]

calculateItems64(items, tipPercentage) ==
    LET names == scanPersons(items)
        persons == Len(names)
    IN  [i \in 1..Len(names) |->
            [name |-> names[i],
             amount |-> calculatePersonAmount64(items, tipPercentage, names[i], persons)]]

\* the items array as adjustAmount leaves it
adjustAmount64(totalAmount, items) ==
    LET currentTotal == SumAmounts64(items)
        difference == F64Round10[F64Sub[totalAmount, currentTotal]]
    IN  IF difference = F64Zero THEN Return(items)
        ELSE IF Len(items) > 0
             THEN Return([items EXCEPT
                     ![1].amount = F64Round10[F64Add[items[1].amount, difference]]])
             ELSE Return(items)

\* splitBill's result, with the items as they were before adjustAmount
splitBill64(in) ==
    LET date == formatDate(in.date)
        subTotal == calculateSubTotal64(in.items)
        tip == calculateTip64(subTotal, in.tipPercentage)
        totalAmount == F64Add[subTotal, tip]
        items == calculateItems64(in.items, in.tipPercentage)
        adjusted == adjustAmount64(totalAmount, items)
    IN  IF date.threw \/ adjusted.threw
        THEN [threw |-> TRUE, value |-> <<>>, pre |-> <<>>]
        ELSE [threw |-> FALSE,
              value |-> [date |-> date.value,
                         location |-> in.location,
                         subTotal |-> subTotal,
                         tip |-> tip,
                         totalAmount |-> totalAmount,
                         items |-> adjusted.value],
              pre |-> items]

----------------------------------------------------------------------------
(* splitBill on bills whose prices are decimal literals with one decimal     *)
(* place, computed in binary64                                               *)

\* prices 0.1, 0.2 and 0.7, as tenths
AlignedTenths == {1, 2, 7}
\* tipPercentage 0 and 20
WholeTips == {0, 20}

AlignedItems ==
    {SharedItem(Tenths[k]) : k \in AlignedTenths}
        \cup {PersonalItem(Tenths[k], who) : k \in AlignedTenths, who \in Persons}

AlignedInputs ==
    {[date |-> Date_2024_03_21, location |-> "Cafe", tipPercentage |-> F64FromInt[t],
      items |-> its] :
        t \in WholeTips, its \in UNION {[1..n -> AlignedItems] : n \in 0..MaxItems}}

NoOutput64 == [NoOutput EXCEPT !.subTotal = F64Zero, !.tip = F64Zero, !.totalAmount = F64Zero]

\* splitBill is called on an input of type BillInput
Binary64Init ==
    /\ input \in AlignedInputs
    /\ phase = "called"
    /\ preItems = <<>>
    /\ output = NoOutput64
    /\ CliIdle

\* one call of splitBill(input)
SplitBill64 ==
    /\ phase = "called"
    /\ \E r \in {splitBill64(input)} :
           /\ phase' = IF r.threw THEN "threw" ELSE "returned"
           /\ output' = IF r.threw THEN NoOutput64 ELSE r.value
           /\ preItems' = r.pre
    /\ UNCHANGED <<input, cliVars>>

Binary64Next == SplitBill64

Binary64Spec == Binary64Init /\ [][Binary64Next]_vars

----------------------------------------------------------------------------
(* Claims about splitBill's numbers as JavaScript computes them *)

\* at least one personal item, every price a non-negative multiple of 0.1
\* (the number its decimal literal denotes)
AlignedInput(in) ==
    /\ PersonalIndexes(in.items) # {}
    /\ \A i \in 1..Len(in.items) :
        LET k == MathRound64[F64Mul[in.items[i].price, Ten]]
        IN  k >= 0 /\ in.items[i].price = Tenths[k]

\* x is the number of a decimal k/10
MultipleOfTenth(x) == x = Tenths[MathRound64[F64Mul[x, Ten]]]

RECURSIVE ExactSum(_)
\* the sum of the amounts as real numbers
ExactSum(items) ==
    IF items = <<>> THEN F64Zero
    ELSE ExactAdd[ExactSum(SubSeq(items, 1, Len(items) - 1)), items[Len(items)].amount]

ExactSub[x, y \in Number] == ExactAdd[x, F64Neg[y]]

\* C15 (as stated): with at least one personal item and every price a
\* non-negative multiple of 0.1, the returned amounts are multiples of 0.1,
\* their sum equals totalAmount exactly, and the first participant's
\* adjustment equals totalAmount minus the sum of the amounts before
\* reconciliation.
C15_AlignedConservation ==
    (phase = "returned" /\ AlignedInput(input)) =>
        /\ \A i \in 1..Len(output.items) : MultipleOfTenth(output.items[i].amount)
        /\ ExactSum(output.items) = output.totalAmount
        /\ ExactSub[output.items[1].amount, preItems[1].amount]
                = ExactSub[output.totalAmount, ExactSum(preItems)]

====
